---- MODULE Spec2Model ----
(***************************************************************************)
(* Model of the streaming call-session handler of backend/main.py:         *)
(* twilio_websocket, TranscriptState, CheetahStream, build_ai_card and     *)
(* update_firebase.                                                        *)
(*                                                                         *)
(* Text is a sequence of tokens; the token " " is the space character and  *)
(* every other token is a run of non-space characters.  Time is counted in *)
(* whole seconds: a reading t stands for any instant whose distance to the   *)
(* readings before it compares with 1.0 as t does with 1.  The limit of the *)
(* free tier guard is scaled down to one unit of the same clock, so that a *)
(* session can outlast it within the clock readings explored.              *)
(***************************************************************************)
EXTENDS Integers, Sequences, FiniteSets, TLC

VARIABLES
    pc,         \* position of the handler: accept, loop, drain, done, rejected
    engine,     \* the pvcheetah engine of CheetahStream: none, open, released
    releases,   \* number of engine.delete() calls made
    wsClosed,   \* websocket.close() was called by the handler
    state,      \* Optional[TranscriptState] (live = FALSE is None)
    buffer,     \* CheetahStream._buffer: the bytes it holds, each named by its
                \* position in the audio ratecv has returned so far
    produced,   \* number of bytes ratecv has returned over the connection
    frames,     \* the frames given to engine.process, in order
    resampled,  \* CheetahStream._resample_state is not None
    now,        \* the latest reading of time.time()
    guard,      \* FREE_TIER_GUARD
    status,     \* the status the store holds: the latest one patched
    aiCalls,    \* the GEMINI_MODEL.generate_content calls made for the current
                \* TranscriptState, in order
    fed,        \* number of frames given to engine.process
    heard,      \* the results process_chunk yielded for the current TranscriptState
    exit,       \* how the message loop was left
    last,       \* what the latest step of the handler did, with the patches it made
    written     \* the terminal statuses patched over the connection and the statuses
                \* patched after the first of them, in order

vars == <<pc, engine, releases, wsClosed, state, buffer, produced, frames,
          resampled, now,
          guard, status, aiCalls, fed, heard, exit, last, written>>

----------------------------------------------------------------------------
(* Bounds of the model *)

MaxFrames == 3      \* frames fed to the engine over one connection
MaxClock == 4       \* last clock reading explored
MaxAdvance == 2     \* seconds that may pass between two clock readings
StartClock == 2     \* clock reading when the connection is accepted

(* Program constants *)

Interval == 1       \* now - state.last_ai_push > 1.0
MAX_CALL_MINUTES == 1
FrameLength == 3    \* self._engine.frame_length, in samples

----------------------------------------------------------------------------
(* Text *)

Sp == <<" ">>
INeed == <<"I", " ", "need">>
INeedAPlumber == <<"I", " ", "need", " ", "a", " ", "plumber">>
ForTuesday == <<"for", " ", "Tuesday">>

\* what engine.process may return as its transcript
ProcessTexts == {<<>>, INeed, INeedAPlumber}
\* what engine.flush may return
FlushTexts == {<<>>, Sp, ForTuesday}

\* what engine.process may return as its transcript when it reports an endpoint
EndpointTexts == {<<>>, INeed}

\* the results of one frame: engine.flush is called at an endpoint only
EngineReturns(partial, endpoint, flushed) ==
    /\ ~endpoint => flushed = <<>>
    /\ endpoint => partial \in EndpointTexts

RECURSIVE LStrip(_)
LStrip(s) == IF s # <<>> /\ Head(s) = " " THEN LStrip(Tail(s)) ELSE s

RECURSIVE RStrip(_)
RStrip(s) ==
    IF s # <<>> /\ s[Len(s)] = " " THEN RStrip(SubSeq(s, 1, Len(s) - 1)) ELSE s

\* str.strip()
Strip(s) == RStrip(LStrip(s))

----------------------------------------------------------------------------
(* TranscriptState *)

NoState ==
    [live |-> FALSE, call_sid |-> "", stream_sid |-> "", started_at |-> 0,
     final_text |-> <<>>, partial_text |-> <<>>, last_ai_push |-> 0]

\* TranscriptState(call_sid=..., stream_sid=..., started_at=time.time())
NewState(call, stream, t) ==
    [live |-> TRUE, call_sid |-> call, stream_sid |-> stream, started_at |-> t,
     final_text |-> <<>>, partial_text |-> <<>>, last_ai_push |-> 0]

\* TranscriptState.elapsed_minutes, read at clock value t
elapsed_minutes(st, t) == t - st.started_at

\* update_final storing the text in the place of what final_text held
update_final_overwriting(st, text) ==
    [st EXCEPT !.final_text = text, !.partial_text = <<>>]

\* TranscriptState.update_final
update_final(st, text) ==
    [st EXCEPT
        !.final_text = IF text # <<>>
                       THEN (IF @ # <<>> THEN @ \o Sp \o text ELSE text)
                       ELSE @,
        !.partial_text = <<>>]

\* state.partial_text = text
set_partial(st, text) == [st EXCEPT !.partial_text = text]

\* f"{state.final_text} {state.partial_text}".strip()
View(st) == Strip(st.final_text \o Sp \o st.partial_text)

----------------------------------------------------------------------------
(* CheetahStream *)

FrameSize == FrameLength * 2

\* CheetahStream._process_frame, given what engine.process and engine.flush return
process_frame(partial, endpoint, flushed) ==
    IF endpoint
    THEN [text |-> Strip(partial \o Sp \o flushed), is_final |-> TRUE]
    ELSE [text |-> Strip(partial), is_final |-> FALSE]

\* process_chunk yielding the result of every frame
YieldsAlways(text) == TRUE

\* process_chunk: if text: yield text, is_final
Yields(text) == text # <<>>

\* CheetahStream.flush: engine.flush().strip() or None (None is the empty text)
flush(flushed) == Strip(flushed)

\* bytes that ulaw2lin and ratecv (8 kHz to 16 kHz, 16 bit) make of n payload bytes:
\* the first call of a stream yields one sample less
Converted(n, primed) == IF primed THEN 4 * n ELSE 4 * n - 2

----------------------------------------------------------------------------
(* build_ai_card and the throttle *)

FallbackCard(text) ==
    [summary |-> text, sentiment |-> "neutral", urgency |-> "medium",
     action_items |-> <<>>]

ParsedCard ==
    [summary |-> <<"summary">>, sentiment |-> "positive", urgency |-> "high",
     action_items |-> <<"call back">>]

NoCard == [summary |-> <<>>, sentiment |-> "", urgency |-> "", action_items |-> <<>>]

\* what GEMINI_MODEL.generate_content and response.text may do
Outcomes == {"json", "text", "raise"}
RawReply == <<"not", " ", "json">>

\* build_ai_card returns None without a call when the transcript is blank
CallsGemini(transcript) == Strip(transcript) # <<>>

\* the value build_ai_card returns when the call does not raise
CardOf(outcome) == IF outcome = "json" THEN ParsedCard ELSE FallbackCard(RawReply)

\* the throttle with the interval left out of the comparison
ShouldEnrichUnthrottled(t, last_push) == t - last_push >= 0

\* now - state.last_ai_push > 1.0
ShouldEnrich(t, last_push) == t - last_push > Interval

----------------------------------------------------------------------------
(* The store: the patch calls made through FirebaseClient *)

Patch(doc, what, notice, final, partial, card) ==
    [doc |-> doc, status |-> what, notice |-> notice, final |-> final,
     partial |-> partial, card |-> card]

Connected(st) == Patch(st.call_sid, "connected", "", <<>>, <<>>, NoCard)
Paused(st) ==
    Patch(st.call_sid, "paused", "Free tier budget exceeded", <<>>, <<>>, NoCard)
Completed(st) == Patch(st.call_sid, "completed", "", <<>>, <<>>, NoCard)
AiPatch(st, card) == Patch(st.call_sid, "ai", "", <<>>, <<>>, card)

\* update_firebase
update_firebase(st) ==
    Patch(st.call_sid, "listening", "", st.final_text, st.partial_text, NoCard)

----------------------------------------------------------------------------
(* Inbound messages *)

Msg(event, fields) == [json |-> TRUE, event |-> event, fields |-> fields]
NotJson == [json |-> FALSE, event |-> "", fields |-> FALSE]
NoMsg == [json |-> FALSE, event |-> "none", fields |-> FALSE]

\* the start events sent: event["start"] with its streamSid and its callSid
Absent == "absent"
StartEvents == {[streamSid |-> "MZ1", callSid |-> "CA1"]}

\* event["start"].get("callSid", stream)
CallSidOf(start) == IF start.callSid = Absent THEN start.streamSid ELSE start.callSid
ChunkSizes == {1, 2}

Step(op, msg, text, is_final, ai, out) ==
    [op |-> op, msg |-> msg, text |-> text, is_final |-> is_final, ai |-> ai,
     out |-> out, failed |-> {}]

\* the status the store holds after the patches out, those whose index is in failed
\* having raised httpx.HTTPError in FirebaseClient.patch
StatusAfter(out, failed) ==
    LET kept == {i \in 1..Len(out) : i \notin failed /\ out[i].status # "ai"}
    IN  IF kept = {} THEN status
        ELSE out[CHOOSE i \in kept : \A j \in kept : j <= i].status

Min(a, b) == IF a < b THEN a ELSE b

\* the values the next reading of time.time() may have
ReadClock == now .. Min(now + MaxAdvance, MaxClock)

\* the guard with the limit taken one unit too high
GuardTripsLate(st, t) == guard /\ elapsed_minutes(st, t) > MAX_CALL_MINUTES + 1

\* FREE_TIER_GUARD and state.elapsed_minutes > MAX_CALL_MINUTES
GuardTrips(st, t) == guard /\ elapsed_minutes(st, t) > MAX_CALL_MINUTES

----------------------------------------------------------------------------
(* The connection *)

Init ==
    /\ pc = "accept"
    /\ engine = "none"
    /\ releases = 0
    /\ wsClosed = FALSE
    /\ state = NoState
    /\ buffer = <<>>
    /\ produced = 0
    /\ frames = <<>>
    /\ resampled = FALSE
    /\ now = StartClock
    /\ guard \in BOOLEAN
    /\ status = "none"
    /\ aiCalls = <<>>
    /\ fed = 0
    /\ heard = <<>>
    /\ exit = "none"
    /\ last = Step("init", NoMsg, <<>>, FALSE, "none", <<>>)
    /\ written = <<>>

\* the statuses that end a session
TerminalStatuses == {"paused", "completed"}

\* the record of terminal statuses once the patches out are made
RECURSIVE Logged(_, _)
Logged(lg, out) ==
    IF out = <<>> THEN lg
    ELSE LET w == Head(out).status
         IN  Logged(IF w \in TerminalStatuses \/ (lg # <<>> /\ w # "ai")
                    THEN Append(lg, w) ELSE lg,
                    Tail(out))

\* what a step of the handler did and the patches it sent to the store, any of which
\* may fail
Did(op, msg, text, is_final, ai, out) ==
    /\ \E failed \in SUBSET (1..Len(out)) :
          /\ last' = [Step(op, msg, text, is_final, ai, out) EXCEPT !.failed = failed]
          /\ status' = StatusAfter(out, failed)
    /\ written' = Logged(written, out)

\* a failed patch raising out of FirebaseClient.patch: the exception leaves the
\* message loop
ResumeUnlessFailed(failed, go) ==
    IF failed
    THEN /\ exit' = "error"
         /\ pc' = "done"
         /\ engine' = "released"
         /\ releases' = releases + 1
    ELSE go

\* FirebaseClient.patch returns None whether or not the request failed (except
\* httpx.HTTPError: log): the handler goes on as go says
Resume(failed, go) == go

\* websocket.accept(); FirebaseClient(...); CheetahStream() creates the engine
Accept ==
    /\ pc = "accept"
    /\ pc' = "loop"
    /\ engine' = "open"
    /\ Did("accept", NoMsg, <<>>, FALSE, "none", <<>>)
    /\ UNCHANGED <<heard, releases, wsClosed, state, buffer, produced,
                   resampled, now, guard, aiCalls, fed, frames, exit>>

\* the failure of pvcheetah.create swallowed: the handler enters the message loop
\* without an engine
AcceptFailsSwallowed ==
    /\ pc = "accept"
    /\ pc' = "loop"
    /\ Did("reject", NoMsg, <<>>, FALSE, "none", <<>>)
    /\ UNCHANGED <<heard, engine, releases, wsClosed, state, buffer, produced,
                   resampled, now, guard, aiCalls, fed, frames, exit>>

\* pvcheetah.create raises: the exception leaves the handler before the try block
AcceptFails ==
    /\ pc = "accept"
    /\ pc' = "rejected"
    /\ Did("reject", NoMsg, <<>>, FALSE, "none", <<>>)
    /\ UNCHANGED <<heard, engine, releases, wsClosed, state, buffer, produced,
                   resampled, now, guard, aiCalls, fed, frames, exit>>

\* finally: firebase.close(); cheetah.close(); the handler returns
Finally ==
    /\ pc' = "done"
    /\ engine' = "released"
    /\ releases' = releases + 1

\* the engine closed at the end of the try block instead of in a finally block:
\* an exception skips it
LeaveUnguarded(reason) ==
    /\ exit' = reason
    /\ pc' = "done"
    /\ engine' = IF reason = "error" THEN engine ELSE "released"
    /\ releases' = IF reason = "error" THEN releases ELSE releases + 1

\* the message loop is left (end of the iteration, break or exception) and the
\* finally block runs
Leave(reason) ==
    /\ exit' = reason
    /\ Finally

\* continue in the place of break: the loop goes on reading
BreakContinues(reason) ==
    /\ exit' = reason
    /\ pc' = "loop"
    /\ UNCHANGED <<engine, releases>>

\* break
Break(reason) == Leave(reason)

\* the peer goes away: iter_text ends the iteration on WebSocketDisconnect
Disconnect ==
    /\ pc = "loop"
    /\ Leave("disconnect")
    /\ Did("disconnect", NoMsg, <<>>, FALSE, "none", <<>>)
    /\ UNCHANGED <<heard, wsClosed, state, buffer, produced, resampled, now,
                   guard, aiCalls, fed, frames>>

\* an exception leaves the message loop
Raise(msg, out) ==
    /\ Leave("error")
    /\ Did("error", msg, <<>>, FALSE, "none", out)

\* the peer sends a message and iter_text yields it
Read == pc = "loop"

\* json.loads(message) raises, or the object has no get
HandleNotJson ==
    /\ Read
    /\ Raise(NotJson, <<>>)
    /\ UNCHANGED <<heard, wsClosed, state, buffer, produced, resampled, now,
                   guard, aiCalls, fed, frames>>

\* kind == "start"
HandleStart ==
    /\ Read
    /\ \E start \in StartEvents, t \in ReadClock :
          LET st == NewState(CallSidOf(start), start.streamSid, t) IN
          /\ state' = st
          /\ now' = t
          /\ aiCalls' = <<>>
          /\ heard' = <<>>
          /\ Did("start", Msg("start", TRUE), <<>>, FALSE, "none", <<Connected(st)>>)
    /\ Resume(last'.failed # {}, UNCHANGED <<pc, engine, releases, exit>>)
    /\ UNCHANGED <<wsClosed, buffer, produced, resampled, guard, fed, frames>>

\* kind == "start" and event["start"]["streamSid"] raises KeyError
HandleStartNoFields ==
    /\ Read
    /\ Raise(Msg("start", FALSE), <<>>)
    /\ UNCHANGED <<heard, wsClosed, state, buffer, produced, resampled, now,
                   guard, aiCalls, fed, frames>>

\* if not state: warning, continue
HandleBeforeStart ==
    /\ Read
    /\ ~state.live
    /\ \E e \in {"media", "stop", "other"}, f \in BOOLEAN :
          Did("ignored", Msg(e, f), <<>>, FALSE, "none", <<>>)
    /\ UNCHANGED <<heard, pc, engine, releases, wsClosed, state, buffer,
                   produced, resampled, now, guard, aiCalls, fed, frames, exit>>

\* the free tier guard trips on a non-start event: paused, websocket.close(), break
HandleGuard ==
    /\ Read
    /\ state.live
    /\ \E t \in ReadClock, e \in {"media", "stop", "other"}, f \in BOOLEAN :
          /\ GuardTrips(state, t)
          /\ now' = t
          /\ Did("guard", Msg(e, f), <<>>, FALSE, "none", <<Paused(state)>>)
    /\ wsClosed' = TRUE
    /\ Resume(last'.failed # {}, Break("guard"))
    /\ UNCHANGED <<heard, aiCalls, state, buffer, produced, resampled, guard,
                   fed, frames>>

\* the clock reading of the guard check when it lets the event through
PassGuard(t) ==
    /\ state.live
    /\ t \in (IF guard THEN ReadClock ELSE {now})
    /\ ~GuardTrips(state, t)
    /\ now' = t

\* self._buffer.extend(converted): n bytes follow the made bytes returned before
Extended(buf, made, n) == buf \o [i \in 1..n |-> made + i]

\* a frame cut from the end of the buffer
LastFrame(buf) == SubSeq(buf, Len(buf) - FrameSize + 1, Len(buf))

\* bytes(self._buffer[:frame_size])
FirstFrame(buf) == SubSeq(buf, 1, FrameSize)

\* del self._buffer[:frame_size]
Rest(buf) == SubSeq(buf, FrameSize + 1, Len(buf))

\* kind == "media": process_chunk decodes, resamples and extends the buffer
HandleMedia ==
    /\ Read
    /\ \E t \in ReadClock : PassGuard(t)
    /\ \E n \in ChunkSizes :
          LET grown == Len(buffer) + Converted(n, resampled) IN
          /\ fed + (grown \div FrameSize) <= MaxFrames
          /\ buffer' = Extended(buffer, produced, Converted(n, resampled))
          /\ produced' = produced + Converted(n, resampled)
          /\ pc' = IF grown >= FrameSize THEN "drain" ELSE "loop"
    /\ resampled' = TRUE
    /\ Did("media", Msg("media", TRUE), <<>>, FALSE, "none", <<>>)
    /\ UNCHANGED <<heard, aiCalls, engine, releases, wsClosed, state, guard,
                   fed, frames, exit>>

\* kind == "media" and event["media"]["payload"] raises KeyError
HandleMediaNoFields ==
    /\ Read
    /\ \E t \in ReadClock : PassGuard(t)
    /\ Raise(Msg("media", FALSE), <<>>)
    /\ UNCHANGED <<heard, aiCalls, wsClosed, state, buffer, produced, resampled,
                   guard, fed, frames>>

\* an event that is neither start, media nor stop falls through the loop body
HandleUnknown ==
    /\ Read
    /\ \E t \in ReadClock : PassGuard(t)
    /\ Did("unknown", Msg("other", TRUE), <<>>, FALSE, "none", <<>>)
    /\ UNCHANGED <<heard, aiCalls, pc, engine, releases, wsClosed, state,
                   buffer, produced, resampled, guard, fed, frames, exit>>

\* the next position of the loop over process_chunk once a frame is taken
AfterFrame(left) == IF left >= FrameSize THEN "drain" ELSE "loop"

\* a frame leaves the buffer and goes to engine.process
TakeFrame ==
    /\ pc = "drain"
    /\ frames' = Append(frames, FirstFrame(buffer))
    /\ buffer' = Rest(buffer)
    /\ fed' = fed + 1
    /\ produced' = produced

\* one turn of the while loop of process_chunk in which engine.process raises
FrameRaises ==
    /\ TakeFrame
    /\ Raise(Msg("media", TRUE), <<>>)
    /\ UNCHANGED <<heard, wsClosed, state, resampled, now, guard, aiCalls>>

\* one turn of the while loop of process_chunk whose text is empty: nothing is yielded
FrameSilent ==
    /\ TakeFrame
    /\ \E partial \in ProcessTexts, endpoint \in BOOLEAN, flushed \in FlushTexts :
          /\ EngineReturns(partial, endpoint, flushed)
          /\ ~Yields(process_frame(partial, endpoint, flushed).text)
          /\ Did("frame", Msg("media", TRUE), <<>>, endpoint, "none", <<>>)
    /\ pc' = AfterFrame(Len(buffer) - FrameSize)
    /\ UNCHANGED <<heard, engine, releases, wsClosed, state, resampled, now,
                   guard, aiCalls, exit>>

\* the transcript after the body of the for loop took (text, is_final)
Applied(st, text, is_final) ==
    IF is_final THEN update_final(st, text) ELSE set_partial(st, text)

\* one turn of the while loop of process_chunk that yields a text, and the body of
\* the for loop of twilio_websocket for it, the summarizer not being called
FrameQuiet ==
    /\ TakeFrame
    /\ \E partial \in ProcessTexts, endpoint \in BOOLEAN, flushed \in FlushTexts,
          t \in ReadClock :
          LET res == process_frame(partial, endpoint, flushed)
              st == Applied(state, res.text, res.is_final)
          IN  /\ EngineReturns(partial, endpoint, flushed)
              /\ Yields(res.text)
              /\ ~(ShouldEnrich(t, st.last_ai_push) /\ CallsGemini(View(st)))
              /\ heard' = Append(heard, res)
              /\ now' = t
              /\ state' = IF ShouldEnrich(t, st.last_ai_push)
                          THEN [st EXCEPT !.last_ai_push = t] ELSE st
              /\ Did("frame", Msg("media", TRUE), res.text, res.is_final, "none",
                     <<update_firebase(st)>>)
    /\ Resume(last'.failed # {},
              /\ pc' = AfterFrame(Len(buffer) - FrameSize)
              /\ UNCHANGED <<engine, releases, exit>>)
    /\ UNCHANGED <<aiCalls, wsClosed, resampled, guard>>

\* the same turn when the throttle lets build_ai_card call the summarizer
FrameEnriched ==
    /\ TakeFrame
    /\ \E partial \in ProcessTexts, endpoint \in BOOLEAN, flushed \in FlushTexts,
          t \in ReadClock, outcome \in Outcomes :
          LET res == process_frame(partial, endpoint, flushed)
              st == Applied(state, res.text, res.is_final)
          IN  /\ EngineReturns(partial, endpoint, flushed)
              /\ Yields(res.text)
              /\ ShouldEnrich(t, st.last_ai_push)
              /\ CallsGemini(View(st))
              /\ heard' = Append(heard, res)
              /\ now' = t
              /\ aiCalls' = Append(aiCalls, [text |-> View(st), at |-> t])
              /\ IF outcome = "raise"
                 THEN /\ Did("frame", Msg("media", TRUE), res.text, res.is_final,
                             outcome, <<update_firebase(st)>>)
                      /\ state' = st
                      /\ Leave("error")
                 ELSE /\ Did("frame", Msg("media", TRUE), res.text, res.is_final,
                             outcome,
                             <<update_firebase(st), AiPatch(st, CardOf(outcome))>>)
                      /\ state' = [st EXCEPT !.last_ai_push = t]
                      /\ Resume(last'.failed # {},
                                /\ pc' = AfterFrame(Len(buffer) - FrameSize)
                                /\ UNCHANGED <<engine, releases, exit>>)
    /\ UNCHANGED <<wsClosed, resampled, guard>>

\* the stop branch clearing the partial text without appending it
StopPartialDropped(st) == [st |-> set_partial(st, <<>>), out |-> <<>>]

\* the transcript and the patches of the stop branch up to cheetah.flush()
StopPartial(st) ==
    IF st.partial_text # <<>>
    THEN [st |-> update_final(st, st.partial_text),
          out |-> <<update_firebase(update_final(st, st.partial_text))>>]
    ELSE [st |-> st, out |-> <<>>]

\* the transcript and the patches of the stop branch after cheetah.flush()
StopRemaining(st, remaining) ==
    IF remaining # <<>>
    THEN [st |-> update_final(st, remaining),
          out |-> <<update_firebase(update_final(st, remaining))>>]
    ELSE [st |-> st, out |-> <<>>]

\* kind == "stop"
HandleStop ==
    /\ Read
    /\ \E t \in ReadClock : PassGuard(t)
    /\ \E flushed \in FlushTexts :
          LET a == StopPartial(state)
              b == StopRemaining(a.st, flush(flushed))
          IN  /\ state' = b.st
              /\ Did("stop", Msg("stop", TRUE), flush(flushed), FALSE, "none",
                     a.out \o b.out \o <<Completed(b.st)>>)
    /\ Resume(last'.failed # {}, Break("stop"))
    /\ UNCHANGED <<heard, aiCalls, wsClosed, buffer, produced, resampled, guard,
                   fed, frames>>

\* kind == "stop" and engine.flush raises
HandleStopRaises ==
    /\ Read
    /\ \E t \in ReadClock : PassGuard(t)
    /\ LET a == StopPartial(state) IN
          /\ state' = a.st
          /\ Raise(Msg("stop", TRUE), a.out)
    /\ UNCHANGED <<heard, aiCalls, wsClosed, buffer, produced, resampled, guard,
                   fed, frames>>

Next ==
    \/ Accept
    \/ AcceptFails
    \/ Disconnect
    \/ HandleNotJson
    \/ HandleStart
    \/ HandleStartNoFields
    \/ HandleBeforeStart
    \/ HandleGuard
    \/ HandleMedia
    \/ HandleMediaNoFields
    \/ HandleUnknown
    \/ FrameRaises
    \/ FrameSilent
    \/ FrameQuiet
    \/ FrameEnriched
    \/ HandleStop
    \/ HandleStopRaises

Spec == Init /\ [][Next]_vars

----------------------------------------------------------------------------
(* Claims *)

\* the step handles a result yielded by process_chunk
YieldStep == Len(heard') = Len(heard) + 1

\* the step calls the summarizer
CallStep == Len(aiCalls') = Len(aiCalls) + 1

\* the throttle rule of the specification for the view v at clock reading t: v is not
\* empty, differs from the text of the latest call, and that call is at least 1.0 s old
EnrichDue(v, t) ==
    /\ v # <<>>
    /\ \/ aiCalls = <<>>
       \/ /\ v # aiCalls[Len(aiCalls)].text
          /\ t - aiCalls[Len(aiCalls)].at >= Interval

\* C1: for every recognition result handled in a media event the summarizer is called
\* if and only if the combined view is non-empty, differs from the text of the most
\* recent enrichment, and at least 1.0 s has passed since that enrichment (no lower
\* bound for the first call).
C1_EnrichIffDue ==
    [][YieldStep => (CallStep <=> EnrichDue(View(state'), now'))]_vars

\* C2: any two summarizer calls of one session either have different input texts or
\* are at least 1.0 s apart.
C2_CallsSpaced ==
    \A i, j \in 1..Len(aiCalls) :
        i < j => \/ aiCalls[i].text # aiCalls[j].text
                 \/ aiCalls[j].at - aiCalls[i].at >= Interval

\* two calls were made for one session, with the same text
C2_Witness ==
    /\ Len(aiCalls) >= 2
    /\ aiCalls[1].text = aiCalls[2].text

\* C3: the engine created for a connection is released exactly once on every exit
\* path of the handler (stop, guard trip, exception, disconnect): never twice, and
\* never left unreleased once the handler has returned.
C3_ReleasedOnce ==
    /\ releases <= 1
    /\ engine = "open" => releases = 0 /\ pc \in {"loop", "drain"}
    /\ pc = "done" => engine = "released" /\ releases = 1
    /\ pc = "done" => exit \in {"stop", "guard", "error", "disconnect"}

\* the handler was left by an exception and the engine is released
C3_Witness == pc = "done" /\ exit = "error" /\ releases = 1

\* the session handled a stop event or tripped the guard
Terminal == exit \in {"stop", "guard"}

\* C4: Completed and Paused are terminal: once a stop event was handled or the guard
\* tripped, the handler has left the message loop, and no step feeds the recognizer,
\* changes the transcript or writes to the store.
C4_TerminalIsFinal ==
    /\ [](Terminal => pc = "done")
    /\ [][Terminal => UNCHANGED <<state, fed, heard, aiCalls, status, buffer, last>>]_vars

\* a stop event was handled and the handler has returned
C4_Witness == pc = "done" /\ exit = "stop" /\ status = "completed"

\* a session in which successive frames produced "I need" and "I need a plumber",
\* both without endpoint, and then ("for Tuesday", endpoint)
Scenario ==
    /\ heard = << [text |-> INeed, is_final |-> FALSE],
                  [text |-> INeedAPlumber, is_final |-> FALSE],
                  [text |-> ForTuesday, is_final |-> TRUE] >>
    /\ last.op = "frame"

\* C5: after the frames "I need", "I need a plumber" (no endpoint) and
\* ("for Tuesday", endpoint), final_text is "I need a plumber for Tuesday" and
\* partial_text is empty: the pending partial text precedes the endpoint text.
C5_ScenarioFinalText ==
    Scenario => /\ state.final_text = INeedAPlumber \o Sp \o ForTuesday
                /\ state.partial_text = <<>>

\* b appended to a, space-separated, an empty a giving b
Joined(a, b) == IF a = <<>> THEN b ELSE a \o Sp \o b

\* the transcript snapshot of a call with final text f and no partial text
FinalSnapshot(f) == Patch(state.call_sid, "listening", "", f, <<>>, NoCard)

\* C6: a stop event that finds a non-empty partial_text and gets a non-empty flush
\* residual appends both to final_text, the partial text first, and writes the
\* completion snapshot after the two transcript snapshots.
C6_StopAppendsBoth ==
    [][(pc = "loop" /\ last'.op = "stop" /\ state.partial_text # <<>>
            /\ last'.text # <<>>)
        => LET f1 == Joined(state.final_text, state.partial_text)
               f2 == f1 \o Sp \o last'.text
           IN  /\ state'.final_text = f2
               /\ state'.partial_text = <<>>
               /\ last'.out = <<FinalSnapshot(f1), FinalSnapshot(f2), Completed(state)>>
               /\ 3 \notin last'.failed => status' = "completed"]_vars

\* a stop event appended a partial text and a flush residual
C6_Witness ==
    /\ last.op = "stop"
    /\ Len(last.out) = 3
    /\ state.final_text = INeed \o Sp \o ForTuesday

\* C7: a session that received a start event reaches Completed on a stop event and
\* also when the connection ends without one: the partial text is appended to
\* final_text and the status "completed" is written before the handler ends.
C7_CompletedOnTermination ==
    (pc = "done" /\ state.live /\ exit \in {"stop", "disconnect"})
        => status = "completed" /\ state.partial_text = <<>>

\* the message is not valid JSON, lacks the fields of its event, or has an unknown
\* event discriminant
Unrecognized(msg) == ~msg.json \/ ~msg.fields \/ msg.event = "other"

\* C8: a malformed or unrecognized message, or a non-start event before the start
\* event, is discarded: the handler stays in the message loop and the session state is
\* unchanged.
C8_MalformedDiscarded ==
    [][(pc = "loop" /\ last'.msg # NoMsg
            /\ (Unrecognized(last'.msg) \/ (~state.live /\ last'.msg.event # "start")))
        => /\ pc' = "loop"
           /\ UNCHANGED <<state, engine, releases, buffer, fed, heard, status>>]_vars

\* the card the specification substitutes when the summarizer fails
DefaultCard ==
    [summary |-> <<"unavailable">>, sentiment |-> "neutral", urgency |-> "medium",
     action_items |-> <<>>]

\* C9: when the summarizer raises or returns unparsable output during a media event,
\* the default card is written and the session goes on.
C9_SummaryFailureAbsorbed ==
    (last.op = "frame" /\ last.ai \in {"raise", "text"})
        => /\ pc \in {"loop", "drain"}
           /\ exit = "none"
           /\ last.out[Len(last.out)] = AiPatch(state, DefaultCard)

\* with the guard enabled, a media event is read at a clock reading that puts the
\* elapsed time of the session over the maximum
LateMedia ==
    /\ pc = "loop"
    /\ guard
    /\ state.live
    /\ last'.msg = Msg("media", TRUE)
    /\ elapsed_minutes(state, now') > MAX_CALL_MINUTES

\* C10: with the guard enabled, a media event arriving after the elapsed time exceeds
\* the maximum pauses the session: "paused" with a notice is written, the connection
\* is closed, the engine is released exactly once, and neither that event's audio nor
\* any later media reaches the recognizer or the transcript.
C10_GuardPauses ==
    /\ [][LateMedia
            => /\ last'.out = <<Patch(state.call_sid, "paused",
                                      "Free tier budget exceeded", <<>>, <<>>, NoCard)>>
               /\ last'.failed = {} => status' = "paused"
               /\ wsClosed'
               /\ exit' = "guard"
               /\ engine' = "released" /\ releases' = 1
               /\ UNCHANGED <<state, buffer, fed, heard, aiCalls>>]_vars
    /\ [][exit = "guard"
            => UNCHANGED <<state, buffer, fed, heard, aiCalls, releases, status>>]_vars

\* the guard tripped on a media event and the handler has returned
C10_Witness ==
    /\ last.op = "guard"
    /\ last.msg = Msg("media", TRUE)
    /\ pc = "done"
    /\ releases = 1
    /\ wsClosed

\* the i-th slice of FrameSize bytes of the audio ratecv returned
Slice(i) == [k \in 1..FrameSize |-> (i - 1) * FrameSize + k]

\* the handler is between two events, none of which ended in an exception
EventsHandled == pc # "drain" /\ exit # "error"

\* C11: the frames fed to the recognizer are the consecutive FrameSize-byte slices of
\* the converted audio in arrival order and the buffer holds the bytes after them; once
\* a media event is fully handled the buffer holds fewer than FrameSize bytes, and when
\* the audio is a whole number of frames all of it was fed and nothing remains.
C11_FramesAreSlices ==
    /\ \A i \in 1..Len(frames) : frames[i] = Slice(i)
    /\ buffer = [k \in 1..Len(buffer) |-> Len(frames) * FrameSize + k]
    /\ Len(frames) * FrameSize + Len(buffer) = produced
    /\ EventsHandled => Len(buffer) < FrameSize
    /\ (EventsHandled /\ produced % FrameSize = 0)
          => Len(frames) = produced \div FrameSize /\ buffer = <<>>

\* two media chunks made exactly one frame of audio, which was fed
C11_Witness ==
    /\ pc = "loop"
    /\ produced = FrameSize
    /\ frames = <<Slice(1)>>
    /\ buffer = <<>>

\* C12: after the first start event of a connection, call_sid, stream_sid and
\* started_at never change, whatever events arrive, further start events included.
C12_IdentityFixed ==
    [][state.live => /\ state'.call_sid = state.call_sid
                     /\ state'.stream_sid = state.stream_sid
                     /\ state'.started_at = state.started_at]_vars

\* a is a prefix of b
IsPrefix(a, b) == Len(a) <= Len(b) /\ SubSeq(b, 1, Len(a)) = a

\* C13: over the lifetime of a session (a TranscriptState, from the start event that
\* creates it) no step shortens or rewrites final_text: the final_text before the step
\* is a prefix of the one after it.
C13_FinalTextGrows ==
    [][(state.live /\ last'.op # "start")
        => IsPrefix(state.final_text, state'.final_text)]_vars

\* an endpoint result was appended to a final_text that was not empty
C13_Witness ==
    /\ last.op = "frame"
    /\ last.is_final
    /\ last.text # <<>>
    /\ IsPrefix(INeed \o Sp, state.final_text)
    /\ Len(state.final_text) > Len(last.text)

\* C14: partial_text is empty after the session has handled a frame for which the
\* recognizer reported an endpoint, and after stop handling.
C14_PartialEmptyAfterFinalize ==
    ((last.op = "frame" /\ last.is_final) \/ last.op = "stop")
        => state.partial_text = <<>>

\* the creation of the recognition engine failed
CreationFailed == pc # "accept" /\ engine = "none"

\* C15: if the creation of the recognition engine fails, the session never starts: no
\* TranscriptState is created and no status is written to the store for the connection.
C15_NoSessionWithoutEngine ==
    CreationFailed => /\ ~state.live
                      /\ status = "none"
                      /\ last.out = <<>>
                      /\ pc = "rejected"

\* the creation of the engine failed and the handler was left
C15_Witness == pc = "rejected" /\ last.op = "reject" /\ engine = "none"

\* the transcript after the stop step differs from the text last summarized
ChangedSincePush ==
    /\ View(state') # <<>>
    /\ aiCalls = <<>> \/ View(state') # aiCalls[Len(aiCalls)].text

\* C16: on a stop event, whenever the combined transcript differs from the text of the
\* last summarization, the summarizer is called once more before the completion
\* snapshot is written.
C16_FinalEnrichment ==
    [][(pc = "loop" /\ last'.op = "stop" /\ ChangedSincePush) => CallStep]_vars

\* a write to the store failed in a step in which nothing else raised
WriteFailed ==
    /\ last'.failed # {}
    /\ last'.op \in {"start", "frame", "stop", "guard"}
    /\ last'.ai # "raise"

\* C17: a failed write to the store never aborts the session: the handler is not left
\* by an exception, the transcript and the throttle state are what the event makes
\* them, and the handler goes on with the current and the later events.
C17_WriteFailureAbsorbed ==
    [][WriteFailed
        => /\ exit' # "error"
           /\ last'.op = "start" => state'.live /\ pc' = "loop"
           /\ last'.op = "frame"
                => LET st == Applied(state, last'.text, last'.is_final)
                   IN  /\ pc' \in {"loop", "drain"}
                       /\ state'.final_text = st.final_text
                       /\ state'.partial_text = st.partial_text
                       /\ state'.last_ai_push =
                              IF ShouldEnrich(now', state.last_ai_push)
                              THEN now' ELSE state.last_ai_push
           /\ last'.op = "stop" => exit' = "stop" /\ state'.partial_text = <<>>
           /\ last'.op = "guard" => exit' = "guard" /\ wsClosed']_vars

\* the transcript write of a frame failed and the handler is still in its loop
C17_Witness ==
    /\ last.op = "frame"
    /\ last.failed # {}
    /\ last.ai = "json"
    /\ pc \in {"loop", "drain"}
    /\ exit = "none"
    /\ state.partial_text = INeed

\* C18: over one connection at most one terminal status is written to the store,
\* "paused" by the guard or "completed" by a stop event, and no "connected" or
\* "listening" snapshot is written after it.
C18_OneTerminalStatus ==
    /\ Len(written) <= 1
    /\ written # <<>> => /\ written[1] \in TerminalStatuses
                         /\ written[1] = "paused" <=> exit = "guard"
                         /\ written[1] = "completed" <=> exit = "stop"
                         /\ pc = "done"

\* a stop event wrote transcript snapshots and then the one terminal status
C18_Witness ==
    /\ written = <<"completed">>
    /\ Len(last.out) > 1
    /\ pc = "done"

\* C19: whenever the throttle condition is evaluated the combined view is not empty,
\* and a frame whose text is empty causes no transcript mutation, no store write and
\* no summarization call.
C19_EmptyFrameIgnored ==
    [][(pc = "drain" /\ last'.op = "frame")
        => /\ YieldStep => View(state') # <<>>
           /\ YieldStep <=> last'.text # <<>>
           /\ last'.text = <<>>
                => /\ last'.out = <<>>
                   /\ UNCHANGED <<state, heard, aiCalls, status, written>>]_vars

\* a frame without text was handled while a partial text was pending
C19_Witness ==
    /\ last.op = "frame"
    /\ last.text = <<>>
    /\ ~last.is_final
    /\ state.partial_text = INeed
    /\ Len(frames) = Len(heard) + 1

\* with the guard enabled, an event of the kind e is read at a clock reading that puts
\* the elapsed time of the session over the maximum
LateEvent(e) ==
    /\ pc = "loop"
    /\ guard
    /\ state.live
    /\ last'.msg = Msg(e, TRUE)
    /\ elapsed_minutes(state, now') > MAX_CALL_MINUTES

\* C20: a stop event read when the guard is enabled and exceeded ends the session
\* paused, not completed, and appends neither the pending partial text nor a flush
\* residual to final_text; a start event is handled whatever the elapsed time.
C20_GuardBeforeStop ==
    /\ [][LateEvent("stop")
            => /\ last'.op = "guard"
               /\ last'.out = <<Paused(state)>>
               /\ written' = <<"paused">>
               /\ exit' = "guard"
               /\ state' = state]_vars
    /\ [][LateEvent("start")
            => /\ last'.op = "start"
               /\ last'.out = <<Connected(state')>>
               /\ state'.started_at = now'
               /\ exit' = "none"]_vars

\* the guard tripped on a stop event while a partial text was pending
C20_Witness ==
    /\ last.op = "guard"
    /\ last.msg = Msg("stop", TRUE)
    /\ exit = "guard"
    /\ state.partial_text # <<>>
    /\ written = <<"paused">>

====
